---- MODULE Spec2Model ----
(***************************************************************************)
(* Model of pandas_mail_script.py: load_env, load_recipients,              *)
(* build_report, make_email, send_email and the driver main().             *)
(*                                                                         *)
(* Python strings are sequences of one-character strings, so that strip,   *)
(* lower, contains and int() are computed character by character.  A       *)
(* Python value that may be None / pd.NA is a record [t, s]: t is the      *)
(* kind ("str", "None", "NA") and s the characters of a "str".             *)
(***************************************************************************)
EXTENDS Integers, Sequences, FiniteSets, TLC

VARIABLES
    env,            \* process environment after load_dotenv(): a function on the variables that are set
    file,           \* recipients.csv: FileAbsent or [exists, hasActive, hasName, rows]
    data,           \* the records build_report() aggregates
    pc,             \* position of main()
    cfg,            \* the dict load_env() returned
    error,          \* the exception that left main(), NoError while none did
    recipients_df,  \* main's recipients_df: rows [index, email, name]
    report_df,      \* main's report_df
    idx,            \* 1-based position of the for loop in recipients_df
    msg,            \* the message built for the current recipient
    server,         \* the smtplib.SMTP object of the current with-block
    exc,            \* the exception in flight inside send_email
    nconn,          \* number of SMTP connections opened so far
    wire,           \* the calls of the send loop and the SMTP commands issued, in order
    stdout          \* the lines printed, in order

vars == <<env, file, data, pc, cfg, error, recipients_df, report_df, idx, msg,
          server, exc, nconn, wire, stdout>>

----------------------------------------------------------------------------
(* Python values *)

None == [t |-> "None", s |-> <<>>]
NA == [t |-> "NA", s |-> <<>>]
Str(chars) == [t |-> "str", s |-> chars]

Range(f) == {f[x] : x \in DOMAIN f}

Whitespace == {" "}

RECURSIVE LStrip(_)
LStrip(s) ==
    IF s # <<>> /\ Head(s) \in Whitespace THEN LStrip(Tail(s)) ELSE s

RECURSIVE RStrip(_)
RStrip(s) ==
    IF s # <<>> /\ s[Len(s)] \in Whitespace
    THEN RStrip(SubSeq(s, 1, Len(s) - 1))
    ELSE s

\* str.strip()
Strip(s) == RStrip(LStrip(s))

LowerChar(c) ==
    CASE c = "A" -> "a"
      [] c = "B" -> "b"
      [] OTHER -> c

\* str.lower()
Lower(s) == [k \in 1..Len(s) |-> LowerChar(s[k])]

\* str.contains("@") / "@" in s
ContainsAt(s) == \E k \in 1..Len(s) : s[k] = "@"

Digits == {"0", "1", "2", "3", "4", "5", "6", "7", "8", "9"}

DigitVal(c) ==
    CASE c = "0" -> 0 [] c = "1" -> 1 [] c = "2" -> 2 [] c = "3" -> 3
      [] c = "4" -> 4 [] c = "5" -> 5 [] c = "6" -> 6 [] c = "7" -> 7
      [] c = "8" -> 8 [] c = "9" -> 9

\* int(s) succeeds
IsInt(s) == s # <<>> /\ \A k \in 1..Len(s) : s[k] \in Digits

RECURSIVE ParseInt(_)
ParseInt(s) ==
    IF s = <<>> THEN 0
    ELSE 10 * ParseInt(SubSeq(s, 1, Len(s) - 1)) + DigitVal(s[Len(s)])

----------------------------------------------------------------------------
(* load_env *)

EnvVars == {"SMTP_HOST", "SMTP_PORT", "SMTP_USER", "SMTP_PASS", "FROM_EMAIL", "FALLBACK_TO"}

DefaultHost == <<"s", "m", "t", "p", ".", "g", "m", "a", "i", "l", ".", "c", "o", "m">>
DefaultPort == <<"5", "8", "7">>

\* os.getenv(k)
getenv(e, k) == IF k \in DOMAIN e THEN Str(e[k]) ELSE None

\* os.getenv(k, default)
getenv_default(e, k, default) == IF k \in DOMAIN e THEN Str(e[k]) ELSE Str(default)

\* the keys of cfg in the dict's order, "port" left out as line 24 does
CheckedKeys == <<"host", "user", "password", "from_email", "fallback_to">>

NoError == [type |-> "none", missing |-> <<>>]
NoCfg == [host |-> None, port |-> 0, user |-> None, password |-> None,
          from_email |-> None, fallback_to |-> None]

RECURSIVE SelectKeys(_, _)
SelectKeys(keys, c) ==
    IF keys = <<>> THEN <<>>
    ELSE (IF c[Head(keys)] \in {None, Str(<<>>)} THEN <<Head(keys)>> ELSE <<>>)
         \o SelectKeys(Tail(keys), c)

\* line 24 with only the first missing key reported
FirstMissingKeys(c) ==
    LET all == SelectKeys(CheckedKeys, c)
    IN  IF all = <<>> THEN <<>> ELSE <<Head(all)>>

\* line 24: missing = [k for k, v in cfg.items() if v in (None, "") and k not in ("port",)]
MissingKeys(c) == SelectKeys(CheckedKeys, c)

\* load_env(): [cfg, error]; error is NoError when the dict is returned
load_env(e) ==
    LET port == getenv_default(e, "SMTP_PORT", DefaultPort).s
    IN  IF ~IsInt(port)
        THEN [cfg |-> NoCfg, error |-> [type |-> "ValueError", missing |-> <<>>]]
        ELSE LET c == [host |-> getenv_default(e, "SMTP_HOST", DefaultHost),
                       port |-> ParseInt(port),
                       user |-> getenv(e, "SMTP_USER"),
                       password |-> getenv(e, "SMTP_PASS"),
                       from_email |-> getenv(e, "FROM_EMAIL"),
                       fallback_to |-> getenv(e, "FALLBACK_TO")]
             IN  IF MissingKeys(c) # <<>>
                 THEN [cfg |-> NoCfg,
                       error |-> [type |-> "RuntimeError", missing |-> MissingKeys(c)]]
                 ELSE [cfg |-> c, error |-> NoError]

----------------------------------------------------------------------------
(* load_recipients *)

FileAbsent == [exists |-> FALSE, hasActive |-> FALSE, hasName |-> FALSE, rows |-> <<>>]

\* the texts read_csv turns into numbers, and into booleans; "" is an empty field
NumTokens == {"0", "1"}
BoolTokens == {"True", "False"}

\* the dtype read_csv infers for the "active" column from all of its fields
InferActive(rows) ==
    LET present == {rows[k].active : k \in 1..Len(rows)} \ {""}
    IN  IF present \subseteq NumTokens THEN "num"
        ELSE IF present \subseteq BoolTokens THEN "bool"
        ELSE "str"

\* one field of the "active" column as read_csv parses it under the column's dtype
ParseActive(kind, tok) ==
    IF tok = "" THEN [k |-> "nan", b |-> FALSE, n |-> 0, s |-> ""]
    ELSE IF kind = "num" THEN [k |-> "num", b |-> FALSE, n |-> (IF tok = "1" THEN 1 ELSE 0), s |-> ""]
    ELSE IF kind = "bool" THEN [k |-> "bool", b |-> (tok = "True"), n |-> 0, s |-> ""]
    ELSE [k |-> "str", b |-> FALSE, n |-> 0, s |-> tok]

\* line 38: pd.read_csv; the index is the 0-based row number
read_csv(f) ==
    [k \in 1..Len(f.rows) |->
        [index |-> k - 1,
         email |-> f.rows[k].email,
         name |-> f.rows[k].name,
         active |-> ParseActive(InferActive(f.rows), f.rows[k].active)]]

\* line 40: df["email"].str.strip().str.lower(); a missing email stays missing
Normalize(df) ==
    [k \in 1..Len(df) |->
        IF df[k].email.t = "str"
        THEN [df[k] EXCEPT !.email = Str(Lower(Strip(df[k].email.s)))]
        ELSE df[k]]

\* x == True, elementwise: the boolean True and the number 1 compare equal to True
EqTrue(v) == (v.k = "bool" /\ v.b) \/ (v.k = "num" /\ v.n = 1)

\* bool(x): what a truthiness test would keep
Truthy(v) == (v.k = "bool" /\ v.b) \/ (v.k = "num" /\ v.n # 0) \/ v.k = "str"

\* lines 41-42 with a truthiness test in place of == True
FilterActiveTruthy(f, df) ==
    IF f.hasActive THEN SelectSeq(df, LAMBDA r : Truthy(r.active)) ELSE df

\* lines 41-42: if "active" in df.columns: df = df[df["active"] == True]
FilterActive(f, df) ==
    IF f.hasActive THEN SelectSeq(df, LAMBDA r : EqTrue(r.active)) ELSE df

\* line 44 dropping only the missing emails
FilterNotMissing(df) == SelectSeq(df, LAMBDA r : r.email.t = "str")

\* line 44: df = df[df["email"].str.contains("@", na=False)]
FilterAt(df) == SelectSeq(df, LAMBDA r : r.email.t = "str" /\ ContainsAt(r.email.s))

RECURSIVE DropDuplicatesKeepLast(_)
DropDuplicatesKeepLast(df) ==
    IF df = <<>> THEN <<>>
    ELSE LET rest == Tail(df)
         IN  IF \E k \in 1..Len(rest) : rest[k].email = Head(df).email
             THEN DropDuplicatesKeepLast(rest)
             ELSE <<Head(df)>> \o DropDuplicatesKeepLast(rest)

\* line 46: df.drop_duplicates(subset=["email"]) keeps the first row of every email
RECURSIVE drop_duplicates(_)
drop_duplicates(df) ==
    IF df = <<>> THEN <<>>
    ELSE LET front == SubSeq(df, 1, Len(df) - 1)
             last == df[Len(df)]
         IN  IF \E k \in 1..Len(front) : front[k].email = last.email
             THEN drop_duplicates(front)
             ELSE Append(drop_duplicates(front), last)

\* lines 48-50: a missing name column, or a missing name, becomes ""
FillName(f, df) ==
    [k \in 1..Len(df) |->
        IF ~f.hasName \/ df[k].name.t # "str"
        THEN [df[k] EXCEPT !.name = Str(<<>>)]
        ELSE df[k]]

\* line 51: df[["email", "name"]]; the rows keep their index
Project(df) ==
    [k \in 1..Len(df) |-> [index |-> df[k].index, email |-> df[k].email, name |-> df[k].name]]

\* load_recipients(csv_path)
load_recipients(f) ==
    IF ~f.exists THEN <<>>
    ELSE Project(FillName(f, drop_duplicates(FilterAt(FilterActive(f, Normalize(read_csv(f)))))))

----------------------------------------------------------------------------
(* build_report *)

\* lines 59-63: the records of this version
SampleData ==
    <<[sku |-> "D-235700", status |-> "in_stock", qty |-> 12],
      [sku |-> "D-226994", status |-> "low_stock", qty |-> 2],
      [sku |-> "D-211744", status |-> "out_of_stock", qty |-> 0]>>

\* the statuses in the order groupby sorts its keys
StatusOrder == <<"in_stock", "low_stock", "out_of_stock">>

RECURSIVE CountSkus(_, _)
CountSkus(d, st) ==
    IF d = <<>> THEN 0
    ELSE (IF Head(d).status = st THEN 1 ELSE 0) + CountSkus(Tail(d), st)

RECURSIVE SumQty(_, _)
SumQty(d, st) ==
    IF d = <<>> THEN 0
    ELSE (IF Head(d).status = st THEN Head(d).qty ELSE 0) + SumQty(Tail(d), st)

RECURSIVE GroupRows(_, _)
GroupRows(d, order) ==
    IF order = <<>> THEN <<>>
    ELSE (IF CountSkus(d, Head(order)) > 0
          THEN <<[section |-> "summary", status |-> Head(order),
                  total_skus |-> CountSkus(d, Head(order)),
                  total_qty |-> SumQty(d, Head(order))]>>
          ELSE <<>>)
         \o GroupRows(d, Tail(order))

\* lines 66 and 68 with the quantity summed over every record, not per group
SummaryUngrouped(d) ==
    LET g == GroupRows(d, StatusOrder)
    IN  [k \in 1..Len(g) |->
            [g[k] EXCEPT !.total_qty = SumQty(d, "in_stock") + SumQty(d, "low_stock")
                                       + SumQty(d, "out_of_stock")]]

\* lines 66 and 68: groupby("status").agg(count of sku, sum of qty), tagged "summary"
Summary(d) == GroupRows(d, StatusOrder)

\* lines 69-70: the records, tagged "detail"
Detail(d) ==
    [k \in 1..Len(d) |->
        [section |-> "detail", sku |-> d[k].sku, status |-> d[k].status, qty |-> d[k].qty]]

\* build_report(): line 71, pd.concat([summary, df2])
build_report(d) == Summary(d) \o Detail(d)

----------------------------------------------------------------------------
(* make_email and the driver main() *)

NoMsg == [From |-> <<>>, To |-> <<>>, greeting |-> <<>>, attachments |-> <<>>]
NoServer == [id |-> 0, state |-> "none"]

Pozdrav == <<"p", "o", "z", "d", "r", "a", "v">>
Primatelj == <<"P", "r", "i", "m", "a", "t", "e", "l", "j">>

\* lines 138-139: name = (row.get("name") or "").strip(); greeting_name = name if name else "pozdrav"
greeting_name(row) ==
    LET name == Strip(row.name.s) IN IF name # <<>> THEN name ELSE Pozdrav

\* lines 161-168: make_email(from_email, to_email, ..., attachments=[("report.csv", report_bytes)])
make_email(c, row) ==
    [From |-> c.from_email.s, To |-> row.email.s, greeting |-> greeting_name(row),
     attachments |-> <<"report.csv">>]

Event(op) == [op |-> op, rcpt |-> idx, conn |-> server.id]

\* line 117 with the exception of load_env swallowed
LoadEnvIgnoringError ==
    /\ pc = "load_env"
    /\ cfg' = load_env(env).cfg
    /\ error' = NoError
    /\ pc' = "load_recipients"
    /\ UNCHANGED <<env, file, data, recipients_df, report_df, idx, msg, server, exc,
                   nconn, wire, stdout>>

\* line 117: cfg = load_env(); an exception ends the run
LoadEnv ==
    /\ pc = "load_env"
    /\ cfg' = load_env(env).cfg
    /\ error' = load_env(env).error
    /\ pc' = IF load_env(env).error = NoError THEN "load_recipients" ELSE "aborted"
    /\ UNCHANGED <<env, file, data, recipients_df, report_df, idx, msg, server, exc,
                   nconn, wire, stdout>>

\* line 120: recipients_df = load_recipients(Path("recipients.csv"))
LoadRecipients ==
    /\ pc = "load_recipients"
    /\ recipients_df' = load_recipients(file)
    /\ pc' = "fallback"
    /\ UNCHANGED <<env, file, data, cfg, error, report_df, idx, msg, server, exc,
                   nconn, wire, stdout>>

\* lines 123-126 with the fallback recipient appended whatever was loaded
FallbackAlways ==
    /\ pc = "fallback"
    /\ recipients_df' = Append(recipients_df,
                               [index |-> 0, email |-> cfg.fallback_to, name |-> Str(Primatelj)])
    /\ pc' = "build_report"
    /\ UNCHANGED <<env, file, data, cfg, error, report_df, idx, msg, server, exc,
                   nconn, wire, stdout>>

\* lines 123-126: if recipients_df.empty: one row, the fallback address and "Primatelj"
Fallback ==
    /\ pc = "fallback"
    /\ recipients_df' =
          IF recipients_df = <<>>
          THEN <<[index |-> 0, email |-> cfg.fallback_to, name |-> Str(Primatelj)]>>
          ELSE recipients_df
    /\ pc' = "build_report"
    /\ UNCHANGED <<env, file, data, cfg, error, report_df, idx, msg, server, exc,
                   nconn, wire, stdout>>

\* lines 129-133: report_df = build_report() (and its CSV bytes and HTML preview)
BuildReport ==
    /\ pc = "build_report"
    /\ report_df' = build_report(data)
    /\ idx' = 1
    /\ pc' = "loop"
    /\ UNCHANGED <<env, file, data, cfg, error, recipients_df, msg, server, exc,
                   nconn, wire, stdout>>

\* lines 136-168: the next row of the for loop, and its message
LoopNext ==
    /\ pc = "loop"
    /\ idx <= Len(recipients_df)
    /\ msg' = make_email(cfg, recipients_df[idx])
    /\ wire' = Append(wire, [op |-> "make_email", rcpt |-> idx, conn |-> 0])
    /\ pc' = "send_email"
    /\ UNCHANGED <<env, file, data, cfg, error, recipients_df, report_df, idx, server,
                   exc, nconn, stdout>>

\* line 136: the for loop is exhausted
LoopEnd ==
    /\ pc = "loop"
    /\ idx > Len(recipients_df)
    /\ pc' = "done"
    /\ UNCHANGED <<env, file, data, cfg, error, recipients_df, report_df, idx, msg,
                   server, exc, nconn, wire, stdout>>

----------------------------------------------------------------------------
(* send_email, called at line 171 inside the try of lines 170-174.  Every  *)
(* step either succeeds or raises; which one is the network's choice.      *)

\* lines 171 and 109: the call, and context = ssl.create_default_context()
CreateContext ==
    /\ pc = "send_email"
    /\ \E ok \in BOOLEAN :
          /\ exc' = IF ok THEN "" ELSE "ssl"
          /\ pc' = IF ok THEN "connect" ELSE "except"
    /\ wire' = Append(wire, [op |-> "send_email", rcpt |-> idx, conn |-> 0])
    /\ UNCHANGED <<env, file, data, cfg, error, recipients_df, report_df, idx, msg,
                   server, nconn, stdout>>

\* line 110: smtplib.SMTP(host, port) connects; a failed constructor leaves no socket
Connect ==
    /\ pc = "connect"
    /\ \E ok \in BOOLEAN :
          IF ok
          THEN /\ nconn' = nconn + 1
               /\ server' = [id |-> nconn + 1, state |-> "connected"]
               /\ wire' = Append(wire, [op |-> "connect", rcpt |-> idx, conn |-> nconn + 1])
               /\ pc' = "starttls"
               /\ exc' = exc
          ELSE /\ exc' = "connect"
               /\ pc' = "except"
               /\ UNCHANGED <<nconn, server, wire>>
    /\ UNCHANGED <<env, file, data, cfg, error, recipients_df, report_df, idx, msg, stdout>>

\* line 111: server.starttls(context=context)
StartTls ==
    /\ pc = "starttls"
    /\ \E ok \in BOOLEAN :
          IF ok
          THEN /\ server' = [server EXCEPT !.state = "tls"]
               /\ wire' = Append(wire, Event("starttls"))
               /\ pc' = "login"
               /\ exc' = exc
          ELSE /\ exc' = "starttls"
               /\ pc' = "with_exit"
               /\ UNCHANGED <<server, wire>>
    /\ UNCHANGED <<env, file, data, cfg, error, recipients_df, report_df, idx, msg,
                   nconn, stdout>>

\* line 112: server.login(user, password)
Login ==
    /\ pc = "login"
    /\ \E ok \in BOOLEAN :
          IF ok
          THEN /\ server' = [server EXCEPT !.state = "auth"]
               /\ wire' = Append(wire, Event("login"))
               /\ pc' = "send_message"
               /\ exc' = exc
          ELSE /\ exc' = "login"
               /\ pc' = "with_exit"
               /\ UNCHANGED <<server, wire>>
    /\ UNCHANGED <<env, file, data, cfg, error, recipients_df, report_df, idx, msg,
                   nconn, stdout>>

\* line 113: server.send_message(message)
SendMessage ==
    /\ pc = "send_message"
    /\ \E ok \in BOOLEAN :
          IF ok
          THEN /\ wire' = Append(wire, Event("data"))
               /\ exc' = exc
          ELSE /\ exc' = "send"
               /\ wire' = wire
    /\ pc' = "with_exit"
    /\ UNCHANGED <<env, file, data, cfg, error, recipients_df, report_df, idx, msg,
                   server, nconn, stdout>>

\* the end of the with block closing only after a send that succeeded
WithExitLeakOnError ==
    /\ pc = "with_exit"
    /\ server' = IF exc = "" THEN [server EXCEPT !.state = "closed"] ELSE server
    /\ wire' = IF exc = "" THEN Append(wire, Event("close")) ELSE wire
    /\ pc' = IF exc = "" THEN "print_sent" ELSE "except"
    /\ UNCHANGED <<env, file, data, cfg, error, recipients_df, report_df, idx, msg,
                   exc, nconn, stdout>>

\* lines 110-113: leaving the with block, SMTP.__exit__ quits and closes, raised or not
WithExit ==
    /\ pc = "with_exit"
    /\ server' = [server EXCEPT !.state = "closed"]
    /\ wire' = Append(wire, Event("close"))
    /\ pc' = IF exc = "" THEN "print_sent" ELSE "except"
    /\ UNCHANGED <<env, file, data, cfg, error, recipients_df, report_df, idx, msg,
                   exc, nconn, stdout>>

\* line 172: print(f"Sent to {email}")
PrintSent ==
    /\ pc = "print_sent"
    /\ stdout' = Append(stdout, [ok |-> TRUE, email |-> recipients_df[idx].email.s, err |-> ""])
    /\ idx' = idx + 1
    /\ pc' = "loop"
    /\ UNCHANGED <<env, file, data, cfg, error, recipients_df, report_df, msg, server,
                   exc, nconn, wire>>

\* lines 173-174 re-raising: the exception leaves main()
ExceptReraise ==
    /\ pc = "except"
    /\ error' = [type |-> exc, missing |-> <<>>]
    /\ exc' = ""
    /\ pc' = "aborted"
    /\ UNCHANGED <<env, file, data, cfg, recipients_df, report_df, idx, msg, server,
                   nconn, wire, stdout>>

\* lines 173-174 trying the same recipient again
ExceptRetry ==
    /\ pc = "except"
    /\ stdout' = Append(stdout, [ok |-> FALSE, email |-> recipients_df[idx].email.s, err |-> exc])
    /\ exc' = ""
    /\ pc' = "loop"
    /\ UNCHANGED <<env, file, data, cfg, error, recipients_df, report_df, idx, msg,
                   server, nconn, wire>>

\* lines 173-174: except Exception as e: print(f"Failed to send to {email}: {e}")
Except ==
    /\ pc = "except"
    /\ stdout' = Append(stdout, [ok |-> FALSE, email |-> recipients_df[idx].email.s, err |-> exc])
    /\ exc' = ""
    /\ idx' = idx + 1
    /\ pc' = "loop"
    /\ UNCHANGED <<env, file, data, cfg, error, recipients_df, report_df, msg, server,
                   nconn, wire>>

----------------------------------------------------------------------------
(* The inputs the specifications draw from *)

MaxRows == 2
MaxDriverRows == 2
MaxRecords == 3

Opt(S) == {None} \cup {Str(x) : x \in S}

\* the environment in which exactly the variables chosen to be set are set
MkEnv(ch) == [v \in {w \in EnvVars : ch[w] # None} |-> ch[v].s]

Envs ==
    {MkEnv(ch) : ch \in [SMTP_HOST : Opt({<<>>, <<"h">>}),
                         SMTP_PORT : Opt({<<>>, <<"2", "5">>, <<"x">>}),
                         SMTP_USER : Opt({<<>>, <<"u">>}),
                         SMTP_PASS : Opt({<<>>, <<"p">>}),
                         FROM_EMAIL : Opt({<<>>, <<"f", "@">>}),
                         FALLBACK_TO : Opt({<<>>, <<"@", "f">>})]}

DriverEnvs ==
    {e \in Envs : /\ "SMTP_HOST" \notin DOMAIN e
                  /\ "SMTP_PORT" \in DOMAIN e => e["SMTP_PORT"] = <<"x">>}

GoodEnv ==
    [v \in EnvVars \ {"SMTP_HOST", "SMTP_PORT"} |->
        CASE v = "SMTP_USER" -> <<"u">>
          [] v = "SMTP_PASS" -> <<"p">>
          [] v = "FROM_EMAIL" -> <<"f", "@">>
          [] v = "FALLBACK_TO" -> <<"@", "f">>]

RawEmails ==
    {NA, Str(<<" ">>), Str(<<"B">>), Str(<<"a", "@">>), Str(<<" ", "A", "@", " ">>),
     Str(<<"@", "b">>)}

ActiveTokens == {"True", "False", "1", "0", "yes", ""}

Names == {NA, Str(<<"n">>)}

\* the rows a file may hold, given the columns it has
RowsOf(emails, actives, names, ha, hn) ==
    [email : emails,
     name : IF hn THEN names ELSE {NA},
     active : IF ha THEN actives ELSE {""}]

DriverEmails == {Str(<<"a", "@">>), Str(<<"@", "b">>), Str(<<"B">>)}

Records == [sku : {"D-235700", "D-226994"}, status : Range(StatusOrder), qty : {0, 2, 12}]

----------------------------------------------------------------------------
(* Specifications *)

Start(e, f, d, at) ==
    /\ env = e
    /\ file = f
    /\ data = d
    /\ pc = at
    /\ cfg = IF at = "load_env" THEN NoCfg ELSE load_env(e).cfg
    /\ error = NoError
    /\ recipients_df =
          IF at = "build_report"
          THEN <<[index |-> 0, email |-> load_env(e).cfg.fallback_to, name |-> Str(Primatelj)]>>
          ELSE <<>>
    /\ report_df = <<>>
    /\ idx = 0
    /\ msg = NoMsg
    /\ server = NoServer
    /\ exc = ""
    /\ nconn = 0
    /\ wire = <<>>
    /\ stdout = <<>>

\* main() from its first line, on the sample records
Init ==
    \E e \in DriverEnvs, ex \in BOOLEAN, n \in 0..MaxDriverRows :
        \E r \in [1..n -> RowsOf(DriverEmails, {""}, Names, FALSE, TRUE)] :
            /\ ex \/ n = 0
            /\ Start(e,
                     IF ex THEN [exists |-> TRUE, hasActive |-> FALSE, hasName |-> TRUE, rows |-> r]
                     ELSE FileAbsent,
                     SampleData, "load_env")

Next ==
    \/ LoadEnv
    \/ LoadRecipients
    \/ Fallback
    \/ BuildReport
    \/ LoopNext
    \/ LoopEnd
    \/ CreateContext
    \/ Connect
    \/ StartTls
    \/ Login
    \/ SendMessage
    \/ WithExit
    \/ PrintSent
    \/ Except

Spec == Init /\ [][Next]_vars

\* load_env() over every environment
InitEnv == \E e \in Envs : Start(e, FileAbsent, SampleData, "load_env")

NextEnv == LoadEnv

SpecEnv == InitEnv /\ [][NextEnv]_vars

\* load_recipients() and the fallback over every recipient file
InitRecipients ==
    \E ex \in BOOLEAN, ha \in BOOLEAN, hn \in BOOLEAN, n \in 0..MaxRows :
        \E r \in [1..n -> RowsOf(RawEmails, ActiveTokens, Names, ha, hn)] :
            /\ ex \/ (n = 0 /\ ~ha /\ ~hn)
            /\ Start(GoodEnv,
                     IF ex THEN [exists |-> TRUE, hasActive |-> ha, hasName |-> hn, rows |-> r]
                     ELSE FileAbsent,
                     SampleData, "load_recipients")

NextRecipients == LoadRecipients \/ Fallback

SpecRecipients == InitRecipients /\ [][NextRecipients]_vars

\* build_report() over every sequence of records
InitReport ==
    \E sample \in BOOLEAN, n \in 0..MaxRecords :
        \E d \in [1..n -> Records] :
            /\ sample => n = 0
            /\ Start(GoodEnv, FileAbsent, IF sample THEN SampleData ELSE d, "build_report")

NextReport == BuildReport

SpecReport == InitReport /\ [][NextReport]_vars

----------------------------------------------------------------------------
(* Properties of the driver, checked under Spec *)

Required == {"SMTP_USER", "SMTP_PASS", "FROM_EMAIL", "FALLBACK_TO"}

\* positions of wire holding the event op of recipient k
Calls(op, k) == {p \in 1..Len(wire) : wire[p].op = op /\ wire[p].rcpt = k}

Terminated == pc \in {"done", "aborted"}

\* C1: a send failure never ends the run: the run aborts only before anything was
\* built or sent, no state short of the end is stuck, and at the end every
\* recipient after one whose send failed had its message built and its send
\* attempted.
C1_FailureDoesNotStopLoop ==
    /\ pc = "aborted" => (wire = <<>> /\ stdout = <<>>)
    /\ ~Terminated => ENABLED Next
    /\ pc = "done" =>
          \A k \in 1..Len(stdout) :
              ~stdout[k].ok =>
                  \A j \in (k + 1)..Len(recipients_df) :
                      /\ Calls("make_email", j) # {}
                      /\ Calls("send_email", j) # {}

\* a finished run in which the first recipient's send failed and the second's succeeded
C1_Witness ==
    /\ pc = "done"
    /\ Len(stdout) = 2
    /\ ~stdout[1].ok
    /\ stdout[2].ok
    /\ Calls("send_email", 2) # {}

\* C2: once configuration has loaded, the k-th line printed is the line of the
\* k-th recipient (success with the address, or failure with the address and the
\* error text), every recipient that has its line was attempted exactly once, no
\* recipient is attempted twice, the attempts are in list order, and at the end
\* there is one line per recipient.
C2_OneAttemptOneLine ==
    /\ pc \in {"load_env", "aborted", "load_recipients", "fallback", "build_report"} =>
          (stdout = <<>> /\ wire = <<>>)
    /\ pc \notin {"load_env", "aborted", "load_recipients", "fallback", "build_report"} =>
          Len(stdout) = idx - 1
    /\ Len(stdout) <= Len(recipients_df)
    /\ \A k \in 1..Len(stdout) :
          /\ stdout[k].email = recipients_df[k].email.s
          /\ stdout[k].ok <=> stdout[k].err = ""
          /\ Cardinality(Calls("send_email", k)) = 1
    /\ \A k \in 1..Len(recipients_df) : Cardinality(Calls("send_email", k)) <= 1
    /\ \A p, q \in 1..Len(wire) :
          (p < q /\ wire[p].op = "send_email" /\ wire[q].op = "send_email") =>
              wire[p].rcpt < wire[q].rcpt
    /\ pc = "done" => Len(stdout) = Len(recipients_df)

\* a finished run over two recipients, one line of each kind
C2_Witness ==
    /\ pc = "done"
    /\ Len(recipients_df) = 2
    /\ Len(stdout) = 2
    /\ stdout[1].ok
    /\ ~stdout[2].ok
    /\ stdout[2].err = "login"

\* C3: with a required variable unset or empty the run gets no further than
\* load_env: it ends there with an error, and no recipient is loaded, no message
\* built, no connection opened and no line printed.
C3_MissingConfigAborts ==
    (\E v \in Required : v \notin DOMAIN env \/ env[v] = <<>>) =>
        /\ pc \in {"load_env", "aborted"}
        /\ pc = "aborted" => error # NoError
        /\ recipients_df = <<>>
        /\ report_df = <<>>
        /\ msg = NoMsg
        /\ nconn = 0
        /\ wire = <<>>
        /\ stdout = <<>>

\* a run aborted for a missing variable although recipients.csv holds recipients
C3_Witness ==
    /\ pc = "aborted"
    /\ error.type = "RuntimeError"
    /\ "SMTP_PASS" \notin DOMAIN env
    /\ file.exists
    /\ load_recipients(file) # <<>>

Open == {"connected", "tls", "auth"}

\* C10: every connection carries the commands of one recipient in the order
\* connect, STARTTLS, login, data, close; data is sent only after STARTTLS and
\* login; a recipient's attempt connects at most once; nothing follows a
\* connection's close; and outside the with block (between attempts, and at the
\* end) every connection that was opened has been closed.
C10_ConnectionPerMessage ==
    /\ \A p \in 1..Len(wire) :
          /\ wire[p].op = "starttls" =>
                \E a \in 1..(p - 1) : wire[a] = [wire[p] EXCEPT !.op = "connect"]
          /\ wire[p].op = "login" =>
                \E a \in 1..(p - 1) : wire[a] = [wire[p] EXCEPT !.op = "starttls"]
          /\ wire[p].op = "data" =>
                \E a \in 1..(p - 1) : wire[a] = [wire[p] EXCEPT !.op = "login"]
          /\ wire[p].op = "close" =>
                \E a \in 1..(p - 1) : wire[a] = [wire[p] EXCEPT !.op = "connect"]
    /\ \A p, q \in 1..Len(wire) :
          /\ (wire[p].conn = wire[q].conn /\ wire[p].conn # 0) => wire[p].rcpt = wire[q].rcpt
          /\ (wire[p].op = "connect" /\ wire[q].op = "connect" /\ wire[p].rcpt = wire[q].rcpt)
                => p = q
          /\ (p < q /\ wire[p].op = "close") => wire[q].conn # wire[p].conn
    /\ server.state \in Open => (server.id = nconn /\ wire[Len(wire)].conn = nconn)
    /\ pc \notin {"starttls", "login", "send_message", "with_exit"} =>
          /\ server.state \notin Open
          /\ \A c \in 1..nconn :
                \E p \in 1..Len(wire) : wire[p].op = "close" /\ wire[p].conn = c

\* a finished run with two connections: one delivered, one closed after a failed login
C10_Witness ==
    /\ pc = "done"
    /\ nconn = 2
    /\ \E p \in 1..Len(wire) : wire[p].op = "data" /\ wire[p].conn = 1
    /\ \E p \in 1..Len(wire) : wire[p].op = "close" /\ wire[p].conn = 2
    /\ ~\E p \in 1..Len(wire) : wire[p].op = "login" /\ wire[p].conn = 2

----------------------------------------------------------------------------
(* Properties of load_env, checked under SpecEnv *)

VarOfKey(k) ==
    CASE k = "host" -> "SMTP_HOST"
      [] k = "user" -> "SMTP_USER"
      [] k = "password" -> "SMTP_PASS"
      [] k = "from_email" -> "FROM_EMAIL"
      [] k = "fallback_to" -> "FALLBACK_TO"

\* the variables the error of load_env names
Named == {VarOfKey(k) : k \in Range(error.missing)}

\* C4 as claimed: load_env fails exactly when one of the four required variables
\* is unset, and the error then names the unset ones and no variable that is set.
C4_Original ==
    pc # "load_env" =>
        LET unset == Required \ DOMAIN env
        IN  /\ unset # {} => (error.type = "RuntimeError" /\ Named = unset)
            /\ unset = {} => error = NoError

\* the variables without a usable value: unset or empty, SMTP_HOST only when set
\* to the empty string (unset it has a default)
Unusable ==
    {v \in Required \cup {"SMTP_HOST"} :
        \/ v \in DOMAIN env /\ env[v] = <<>>
        \/ v \notin DOMAIN env /\ v # "SMTP_HOST"}

\* C4 amended: when SMTP_PORT is set to a text that is no integer, load_env fails
\* with ValueError; otherwise it fails with the missing-variables error exactly
\* when one of SMTP_USER, SMTP_PASS, FROM_EMAIL, FALLBACK_TO is unset or empty or
\* SMTP_HOST is set empty, and the error names, by config key and once each, every
\* such variable and no other; with none it returns the configuration.
C4_NamesEveryMissingKey ==
    pc # "load_env" =>
        IF "SMTP_PORT" \in DOMAIN env /\ ~IsInt(env["SMTP_PORT"])
        THEN error.type = "ValueError" /\ pc = "aborted"
        ELSE /\ Unusable # {} =>
                   /\ pc = "aborted"
                   /\ error.type = "RuntimeError"
                   /\ Named = Unusable
                   /\ Len(error.missing) = Cardinality(Unusable)
             /\ Unusable = {} =>
                   /\ pc = "load_recipients"
                   /\ error = NoError
                   /\ cfg.port = (IF "SMTP_PORT" \in DOMAIN env THEN 25 ELSE 587)
                   /\ \A k \in Range(CheckedKeys) : cfg[k] \notin {None, Str(<<>>)}

\* load_env failed naming three variables, one of them set but empty
C4_Witness ==
    /\ pc = "aborted"
    /\ error.type = "RuntimeError"
    /\ Len(error.missing) = 3
    /\ "SMTP_USER" \notin DOMAIN env
    /\ "FROM_EMAIL" \in DOMAIN env
    /\ "FROM_EMAIL" \in Named

----------------------------------------------------------------------------
(* Properties of load_recipients and the fallback, checked under          *)
(* SpecRecipients.  At pc = "fallback" recipients_df is what               *)
(* load_recipients returned.                                               *)

Returned == pc = "fallback" /\ file.exists

\* the email of source row j (1-based), trimmed and lower-cased
NormEmail(j) ==
    IF file.rows[j].email.t = "str" THEN Str(Lower(Strip(file.rows[j].email.s))) ELSE NA

ValidEmail(j) == file.rows[j].email.t = "str" /\ ContainsAt(file.rows[j].email.s)

\* the active field of source row j compares equal to True
ActiveRow(j) ==
    LET present == {file.rows[k].active : k \in 1..Len(file.rows)} \ {""}
    IN  \/ file.rows[j].active = "True" /\ present \subseteq BoolTokens
        \/ file.rows[j].active = "1" /\ present \subseteq NumTokens

Eligible(j) == ValidEmail(j) /\ (file.hasActive => ActiveRow(j))

\* the source row (1-based) an output row came from
Src(r) == r.index + 1

\* C5: an absent file loads as the empty set; an empty loaded set is replaced by
\* exactly one recipient, the configured fallback address; a non-empty one is
\* left as loaded.
C5_FallbackWhenEmpty ==
    /\ []((pc = "fallback" /\ ~file.exists) => recipients_df = <<>>)
    /\ [][pc = "fallback" =>
            IF recipients_df = <<>>
            THEN /\ Len(recipients_df') = 1
                 /\ recipients_df'[1].email.s = env["FALLBACK_TO"]
            ELSE recipients_df' = recipients_df]_vars

\* the file exists with two rows, both filtered out, and the fallback stands in
C5_Witness ==
    /\ pc = "build_report"
    /\ file.exists
    /\ Len(file.rows) = 2
    /\ load_recipients(file) = <<>>
    /\ Len(recipients_df) = 1
    /\ recipients_df[1].email.s = <<"@", "f">>

\* C6 as claimed: every output row is the first row of the source with its
\* normalized email.
C6_Original ==
    Returned =>
        \A k \in 1..Len(recipients_df) :
            \A j \in 1..(Src(recipients_df[k]) - 1) : NormEmail(j) # recipients_df[k].email

\* C6 amended: the output holds at most one entry per normalized email, and it is
\* the first row with that email among the rows that pass the active filter (an
\* earlier row the active filter dropped does not count); every normalized email
\* of such a row is in the output.
C6_FirstEligibleOccurrence ==
    Returned =>
        /\ \A k, l \in 1..Len(recipients_df) :
              recipients_df[k].email = recipients_df[l].email => k = l
        /\ \A k \in 1..Len(recipients_df) :
              /\ Src(recipients_df[k]) \in 1..Len(file.rows)
              /\ Eligible(Src(recipients_df[k]))
              /\ NormEmail(Src(recipients_df[k])) = recipients_df[k].email
              /\ \A j \in 1..(Src(recipients_df[k]) - 1) :
                    Eligible(j) => NormEmail(j) # recipients_df[k].email
        /\ \A j \in 1..Len(file.rows) :
              Eligible(j) => \E k \in 1..Len(recipients_df) : recipients_df[k].email = NormEmail(j)

\* two rows that differ as written and agree once normalized: the first survives
C6_Witness ==
    /\ Returned
    /\ Len(file.rows) = 2
    /\ Eligible(1) /\ Eligible(2)
    /\ file.rows[1].email # file.rows[2].email
    /\ NormEmail(1) = NormEmail(2)
    /\ Len(recipients_df) = 1
    /\ recipients_df[1].index = 0

\* C7 as claimed: with an active column, every output row's active field is
\* exactly true; without one, no row with a valid email is dropped.
C7_Original ==
    Returned =>
        /\ file.hasActive =>
              \A k \in 1..Len(recipients_df) : file.rows[Src(recipients_df[k])].active = "True"
        /\ ~file.hasActive =>
              \A j \in 1..Len(file.rows) :
                  ValidEmail(j) => \E k \in 1..Len(recipients_df) : recipients_df[k].email = NormEmail(j)

\* C7 amended: with an active column, a row survives only when its active field
\* compares equal to True as read_csv typed the column: the boolean true in a
\* column of booleans, or the number 1 in a column of numbers; no text survives,
\* not "yes" and not "True" in a column holding other text.  Without the column,
\* no row with a valid email is dropped.
C7_ActiveEqualsTrue ==
    Returned =>
        /\ file.hasActive =>
              \A k \in 1..Len(recipients_df) :
                  LET present == {file.rows[j].active : j \in 1..Len(file.rows)} \ {""}
                      tok == file.rows[Src(recipients_df[k])].active
                  IN  \/ tok = "True" /\ present \subseteq BoolTokens
                      \/ tok = "1" /\ present \subseteq NumTokens
        /\ ~file.hasActive =>
              \A j \in 1..Len(file.rows) :
                  ValidEmail(j) => \E k \in 1..Len(recipients_df) : recipients_df[k].email = NormEmail(j)

\* a column of booleans: the true row survives, the false row with a valid email does not
C7_Witness ==
    /\ Returned
    /\ file.hasActive
    /\ Len(file.rows) = 2
    /\ file.rows[1].active = "False" /\ ValidEmail(1)
    /\ file.rows[2].active = "True" /\ ValidEmail(2)
    /\ NormEmail(1) # NormEmail(2)
    /\ Len(recipients_df) = 1
    /\ recipients_df[1].index = 1

\* C8: every output email is a string that is trimmed, lower-cased and contains
\* "@", and is the normalized email of its source row; no row whose email is
\* missing or lacks "@" is in the output.
C8_ValidNormalizedEmails ==
    Returned =>
        /\ \A k \in 1..Len(recipients_df) :
              LET e == recipients_df[k].email
              IN  /\ e.t = "str"
                  /\ Strip(e.s) = e.s
                  /\ Lower(e.s) = e.s
                  /\ ContainsAt(e.s)
                  /\ e = NormEmail(Src(recipients_df[k]))
        /\ \A j \in 1..Len(file.rows) :
              ~ValidEmail(j) => \A k \in 1..Len(recipients_df) : Src(recipients_df[k]) # j

\* a row without email is dropped and a padded upper-case email comes out normalized
C8_Witness ==
    /\ Returned
    /\ Len(file.rows) = 2
    /\ file.rows[1].email = NA
    /\ file.rows[2].email = Str(<<" ", "A", "@", " ">>)
    /\ Len(recipients_df) = 1
    /\ recipients_df[1].email = Str(<<"a", "@">>)

----------------------------------------------------------------------------
(* Properties of build_report, checked under SpecReport *)

Built == pc = "loop"

SummaryRows == {k \in 1..Len(report_df) : report_df[k].section = "summary"}
DetailRows == {k \in 1..Len(report_df) : report_df[k].section = "detail"}

\* the sum of qty over the first n records of status st
RECURSIVE QtyOf(_, _)
QtyOf(st, n) ==
    IF n = 0 THEN 0
    ELSE QtyOf(st, n - 1) + (IF data[n].status = st THEN data[n].qty ELSE 0)

\* C9: each status of the records has exactly one summary row, whose total_skus
\* and total_qty are the count and the quantity sum of the records of that
\* status; no other summary row exists; the summary rows come before the detail
\* rows, which are the records in order, unchanged.
C9_SummaryMatchesDetail ==
    Built =>
        /\ \A k \in SummaryRows, l \in DetailRows : k < l
        /\ SummaryRows \cup DetailRows = 1..Len(report_df)
        /\ Cardinality(DetailRows) = Len(data)
        /\ \A n \in 1..Len(data) :
              LET row == report_df[Cardinality(SummaryRows) + n]
              IN  /\ row.section = "detail"
                  /\ row.sku = data[n].sku
                  /\ row.status = data[n].status
                  /\ row.qty = data[n].qty
        /\ \A k \in SummaryRows :
              /\ \E n \in 1..Len(data) : data[n].status = report_df[k].status
              /\ \A l \in SummaryRows : report_df[l].status = report_df[k].status => l = k
              /\ report_df[k].total_skus =
                    Cardinality({n \in 1..Len(data) : data[n].status = report_df[k].status})
              /\ report_df[k].total_qty = QtyOf(report_df[k].status, Len(data))
        /\ \A n \in 1..Len(data) : \E k \in SummaryRows : report_df[k].status = data[n].status

\* three records, two of one status with quantities that add up, one of another
C9_Witness ==
    /\ Built
    /\ Len(data) = 3
    /\ data[1].status = "low_stock" /\ data[1].qty = 2
    /\ data[2].status = "in_stock"
    /\ data[3].status = "low_stock" /\ data[3].qty = 12
    /\ Len(report_df) = 5
    /\ report_df[2].total_skus = 2
    /\ report_df[2].total_qty = 14

====
